---------------------------- MODULE Spec2Model ----------------------------
(***************************************************************************)
(* A model of l8r, a decoder of HAProxy HTTP access-log lines.             *)
(*                                                                         *)
(* Text is modelled by TLA+ strings; a character is a string of length 1.  *)
(* The character universe is ASCII: the regex classes \d, \w and \s are    *)
(* modelled by their ASCII members.  An unsigned integer of the program    *)
(* (u64, u16) is modelled by its canonical decimal numeral, the string of  *)
(* its digits without leading zeros, so that the full 64-bit range is      *)
(* represented exactly.                                                    *)
(***************************************************************************)
EXTENDS Integers, Sequences, FiniteSets, TLC

VARIABLES
    input,    \* the text handed to the operation
    op,       \* the operation applied to input, "none" before it
    output,   \* what the operation returned
    orig,     \* the line and its outcome before its whitespace was replaced
    args,     \* main: the parsed command line and what the input source is
    reader,   \* main: the lines of the input source and the place of the next
    stdout,   \* main: the lines printed on standard output
    stderr,   \* main: the lines printed on standard error
    pc,       \* main: the place of control
    calls,    \* concurrent calls of parse: the line, place and result of each
    re_cell   \* the cell of the lazily compiled RE shared by the calls

\* The variables of main, and those of the concurrent calls.
main_vars == <<args, reader, stdout, stderr, pc>>

call_vars == <<calls, re_cell>>

vars == <<input, op, output, orig, args, reader, stdout, stderr, pc, calls, re_cell>>

(***************************************************************************)
(* Strings and characters.                                                 *)
(***************************************************************************)
CharAt(s, i) == SubSeq(s, i, i)

CharsOf(s) == {CharAt(s, i) : i \in 1..Len(s)}

AsciiDigit == CharsOf("0123456789")

AsciiUpper == CharsOf("ABCDEFGHIJKLMNOPQRSTUVWXYZ")

AsciiLower == CharsOf("abcdefghijklmnopqrstuvwxyz")

AsciiAlpha == AsciiUpper \cup AsciiLower

DigitValue(c) == CHOOSE d \in 0..9 : CharAt("0123456789", d + 1) = c

(***************************************************************************)
(* The regex classes used by RE (src/src/main.rs:12).                      *)
(***************************************************************************)
ClassHas(cls, c) ==
    CASE cls = "alpha"     -> c \in AsciiAlpha                     \* [A-Za-z]
      [] cls = "digit"     -> c \in AsciiDigit                     \* \d
      [] cls = "timechar"  -> c \in AsciiDigit \cup {":"}          \* [0-9:]
      [] cls = "word"      -> c \in AsciiAlpha \cup AsciiDigit \cup {"_"}   \* \w
      [] cls = "alnum"     -> c \in AsciiAlpha \cup AsciiDigit     \* [A-Za-z0-9]
      [] cls = "ipchar"    -> c \in AsciiDigit \cup {"."}          \* [0-9.]
      [] cls = "ascdigit"  -> c \in AsciiDigit                     \* [0-9]
      [] cls = "wordhyph"  -> c \in AsciiAlpha \cup AsciiDigit \cup {"_", "-"} \* [\w-]
      [] cls = "space"     -> c \in {" ", "\t", "\n", "\r", "\f"}  \* \s
      [] cls = "any"       -> c # "\n"                             \* .
      [] OTHER             -> FALSE

\* One item of the regex: a literal character, or a class repeated lo..hi
\* times (unb: no upper limit), greedy; grp is the capture group it lies in.
Lit(c, g) == [cls |-> "lit", ch |-> c, lo |-> 1, hi |-> 1, unb |-> FALSE, grp |-> g]

Rep(cls, lo, hi, g) == [cls |-> cls, ch |-> "", lo |-> lo, hi |-> hi, unb |-> FALSE, grp |-> g]

Plus(cls, g) == [cls |-> cls, ch |-> "", lo |-> 1, hi |-> 1, unb |-> TRUE, grp |-> g]

Star(cls, g) == [cls |-> cls, ch |-> "", lo |-> 0, hi |-> 0, unb |-> TRUE, grp |-> g]

\* \d+/\d+/\d+/\d+/\d+
FiveInts(g) ==
    <<Plus("digit", g), Lit("/", g), Plus("digit", g), Lit("/", g), Plus("digit", g),
      Lit("/", g), Plus("digit", g), Lit("/", g), Plus("digit", g)>>

\* The compiled token grammar, anchored at both ends.
RE ==
    <<Rep("alpha", 3, 3, "month"), Plus("space", "")>>
    \o <<Rep("digit", 1, 2, "day"), Plus("space", "")>>
    \o <<Rep("timechar", 8, 8, "time"), Plus("space", "")>>
    \o <<Plus("word", "host"), Plus("space", "")>>
    \o <<Plus("alnum", "process_id"), Lit("[", "process_id"),
         Plus("digit", "process_id"), Lit("]", "process_id"), Lit(":", ""),
         Plus("space", "")>>
    \o <<Plus("ipchar", "source_ip_port"), Lit(":", "source_ip_port"),
         Plus("ascdigit", "source_ip_port"), Plus("space", "")>>
    \o <<Lit("[", ""), Plus("any", "time_stamp_accepted"), Lit("]", ""),
         Plus("space", "")>>
    \o <<Plus("word", "frontend_name"), Plus("space", "")>>
    \o <<Plus("wordhyph", "backend_name"), Lit("/", ""),
         Plus("wordhyph", "server_name"), Plus("space", "")>>
    \o FiveInts("queues_stats") \o <<Plus("space", "")>>
    \o <<Plus("digit", "response_code"), Plus("space", "")>>
    \o <<Plus("digit", "bytes_read")>>
    \o <<Rep("space", 1, 1, ""), Lit("-", ""), Rep("space", 1, 1, ""), Lit("-", ""),
         Rep("space", 1, 1, "")>>
    \o <<Rep("wordhyph", 4, 4, "termination_state"), Rep("space", 1, 1, "")>>
    \o FiveInts("conn_counts") \o <<Plus("space", "")>>
    \o <<Plus("digit", "queue"), Lit("/", "queue"), Plus("digit", "queue"),
         Plus("space", "")>>
    \o <<Lit("\"", ""), Star("any", "request"), Lit("\"", "")>>

ItemHas(a, c) == IF a.cls = "lit" THEN c = a.ch ELSE ClassHas(a.cls, c)

Min(S) == CHOOSE x \in S : \A y \in S : x <= y

Max(S) == CHOOSE x \in S : \A y \in S : x >= y

\* Item a can take n characters.
Takes(a, n) == n >= a.lo /\ (a.unb \/ n <= a.hi)

\* The start of the run of a's characters that ends before position q.
RunStart(s, a, q) ==
    q - (CHOOSE d \in 0..(q - 1) :
            /\ d = q - 1 \/ ~ItemHas(a, CharAt(s, q - 1 - d))
            /\ \A j \in 1..d : ItemHas(a, CharAt(s, q - j)))

\* The position after the run of a's characters that starts at position p.
RunEnd(s, a, p) ==
    p + (CHOOSE d \in 0..(Len(s) + 1 - p) :
            /\ d = Len(s) + 1 - p \/ ~ItemHas(a, CharAt(s, p + d))
            /\ \A j \in 0..(d - 1) : ItemHas(a, CharAt(s, p + j)))

\* The positions p from which item a matches the characters p .. q - 1,
\* given the start of the run that ends before q.
BeforeOne(a, q, start) == {p \in start..q : Takes(a, q - p)}

\* The positions from which item a followed by a match from one of the
\* positions nxt is possible.
Before(s, a, nxt) == UNION {BeforeOne(a, q, RunStart(s, a, q)) : q \in nxt}

\* SufSets(re, s, k, stop, acc): acc[1] is the set of positions from which
\* the items after k match s up to its end ($); the result puts before acc
\* the same sets for items k, k - 1, ..., stop + 1.  Once no position is
\* left, no earlier item can match either.
RECURSIVE SufSets(_, _, _, _, _)
SufSets(re, s, k, stop, acc) ==
    IF k = stop
    THEN acc
    ELSE IF acc[1] = {}
         THEN [j \in 1..(k - stop) |-> {}] \o acc
         ELSE SufSets(re, s, k - 1, stop, <<Before(s, re[k], acc[1])>> \o acc)

\* The same over the whole regex, eight items at a time.
RECURSIVE SufAll(_, _, _, _)
SufAll(re, s, k, acc) ==
    IF k = 0
    THEN acc
    ELSE IF acc[1] = {}
         THEN [j \in 1..k |-> {}] \o acc
         ELSE SufAll(re, s, IF k > 8 THEN k - 8 ELSE 0,
                     SufSets(re, s, k, IF k > 8 THEN k - 8 ELSE 0, acc))

\* The ends among nxt that item a can reach from pos, given the end of the
\* run that starts at pos.
Fit(a, pos, end, nxt) == {q \in nxt : q >= pos /\ q <= end /\ Takes(a, q - pos)}

\* Leftmost-first matching: each item in turn takes the longest run that
\* leaves the rest of the regex able to match.  acc lists, for the items
\* before k, the position after the item's last character; the result
\* extends it to item stop.
RECURSIVE Ends(_, _, _, _, _, _)
Ends(re, s, suf, k, stop, acc) ==
    IF k > stop
    THEN acc
    ELSE Ends(re, s, suf, k + 1, stop,
              Append(acc, Max(Fit(re[k], IF k = 1 THEN 1 ELSE acc[k - 1],
                                  RunEnd(s, re[k], IF k = 1 THEN 1 ELSE acc[k - 1]),
                                  suf[k + 1]))))

\* The same over the whole regex, eight items at a time.
RECURSIVE EndsAll(_, _, _, _, _)
EndsAll(re, s, suf, k, acc) ==
    IF k > Len(re) \/ Len(acc) # k - 1
    THEN acc
    ELSE EndsAll(re, s, suf, IF k + 7 < Len(re) THEN k + 8 ELSE Len(re) + 1,
                 Ends(re, s, suf, k, IF k + 7 < Len(re) THEN k + 7 ELSE Len(re), acc))

NoMatch == [ok |-> FALSE, ends |-> <<>>]

\* The match, given the sets suf of SufAll.
MatchWith(re, s, suf) ==
    IF 1 \in suf[1]
    THEN [ok |-> TRUE, ends |-> EndsAll(re, s, suf, 1, <<>>)]
    ELSE NoMatch

\* The match of the whole of s (^ ... $) against re.
MatchFrom(re, s) == MatchWith(re, s, SufAll(re, s, Len(re), <<{Len(s) + 1}>>))

GroupItems(re, g) == {k \in 1..Len(re) : re[k].grp = g}

\* The text of the capture group made of items first .. last, under a match
\* whose item ends are ends.
GroupText(s, ends, first, last) ==
    SubSeq(s, IF first = 1 THEN 1 ELSE ends[first - 1], ends[last] - 1)

GroupNames ==
    {"month", "day", "time", "host", "process_id", "source_ip_port",
     "time_stamp_accepted", "frontend_name", "backend_name", "server_name",
     "queues_stats", "response_code", "bytes_read", "termination_state",
     "conn_counts", "queue", "request"}

\* The first and last item of every named group of RE.
GroupSpan ==
    [g \in GroupNames |-> [first |-> Min(GroupItems(RE, g)), last |-> Max(GroupItems(RE, g))]]

Captured(s, m) ==
    IF m.ok
    THEN [ok |-> TRUE,
          name |-> [g \in GroupNames |->
                      GroupText(s, m.ends, GroupSpan[g].first, GroupSpan[g].last)]]
    ELSE [ok |-> FALSE, name |-> [g \in GroupNames |-> ""]]

\* RE.captures(s): None, or the text of every named group.
RE_captures(s) == Captured(s, MatchFrom(RE, s))

(***************************************************************************)
(* Results: Rust's Result<T, Box<dyn Error>>.                              *)
(***************************************************************************)
Ok(v) == [ok |-> TRUE, val |-> v]

Err(e) == [ok |-> FALSE, err |-> e]

\* A panic (an index out of bounds): no value is returned to the caller.
Panic(m) == [ok |-> FALSE, panic |-> m]

IsPanic(r) == "panic" \in DOMAIN r

(***************************************************************************)
(* str::parse::<u64>() and str::parse::<u16>() (core::num, radix 10).  An  *)
(* optional leading '+' is accepted; '-' is an invalid digit for unsigned  *)
(* types; the characters are read from the left, and the first invalid     *)
(* digit or the first overflow of the accumulated value ends the parse.    *)
(***************************************************************************)
U64_MAX == "18446744073709551615"

U16_MAX == "65535"

\* The canonical numeral of a string of digits: its leading zeros dropped.
Canonical(ds) ==
    LET nz == {i \in 1..Len(ds) : CharAt(ds, i) # "0"}
    IN  IF nz = {} THEN "0" ELSE SubSeq(ds, Min(nz), Len(ds))

\* a > b, for canonical numerals.
NumeralGreater(a, b) ==
    \/ Len(a) > Len(b)
    \/ /\ Len(a) = Len(b)
       /\ \E i \in 1..Len(a) :
             /\ SubSeq(a, 1, i - 1) = SubSeq(b, 1, i - 1)
             /\ DigitValue(CharAt(a, i)) > DigitValue(CharAt(b, i))

\* The digits ds read from the left: bad is the place of the first
\* character that is no digit (0: none).
ReadDigits(ds, bad, max) ==
    IF \E i \in 1..(IF bad = 0 THEN Len(ds) ELSE bad - 1) :
          NumeralGreater(Canonical(SubSeq(ds, 1, i)), max)
    THEN Err("number too large to fit in target type")
    ELSE IF bad # 0
    THEN Err("invalid digit found in string")
    ELSE Ok(Canonical(ds))

FirstNonDigit(ds) ==
    IF \A i \in 1..Len(ds) : CharAt(ds, i) \in AsciiDigit
    THEN 0
    ELSE CHOOSE i \in 1..Len(ds) :
            /\ CharAt(ds, i) \notin AsciiDigit
            /\ \A j \in 1..(i - 1) : CharAt(ds, j) \in AsciiDigit

Unsigned(ds, max) == ReadDigits(ds, FirstNonDigit(ds), max)

FromStrRadix10(src, max) ==
    IF src = ""
    THEN Err("cannot parse integer from empty string")
    ELSE IF src \in {"+", "-"}
    THEN Err("invalid digit found in string")
    ELSE IF CharAt(src, 1) = "+"
    THEN Unsigned(SubSeq(src, 2, Len(src)), max)
    ELSE Unsigned(src, max)

parse_u64(src) == FromStrRadix10(src, U64_MAX)

\* The value of a numeral that fits in 16 bits.
RECURSIVE NumeralValue(_)
NumeralValue(n) ==
    IF n = ""
    THEN 0
    ELSE 10 * NumeralValue(SubSeq(n, 1, Len(n) - 1)) + DigitValue(CharAt(n, Len(n)))

U16Of(r) == IF r.ok THEN Ok(NumeralValue(r.val)) ELSE r

parse_u16(src) == U16Of(FromStrRadix10(src, U16_MAX))

\* Display of an unsigned integer: its decimal numeral.
DisplayU64(v) == v

\* The text of s between the separators at positions a and b.
Between(s, a, b) == SubSeq(s, a + 1, b - 1)

\* The place of the j-th separator of s, the separators being at the
\* positions at; 0 and Len(s) + 1 bound the text.
SepAt(s, at, j) ==
    IF j = 0
    THEN 0
    ELSE IF j > Cardinality(at)
    THEN Len(s) + 1
    ELSE CHOOSE i \in at : Cardinality({x \in at : x < i}) = j - 1

SplitAt(s, at) ==
    [j \in 1..(Cardinality(at) + 1) |-> Between(s, SepAt(s, at, j - 1), SepAt(s, at, j))]

\* s.split('/').collect()
Split(s, sep) == SplitAt(s, {i \in 1..Len(s) : CharAt(s, i) = sep})

\* parts[i - 1].parse::<u64>()
ParsePart(parts, i) ==
    IF i <= Len(parts) THEN parse_u64(parts[i]) ELSE Panic("index out of bounds")

\* The first failure among results rs, or Ok.
FirstErr(rs) ==
    IF \A i \in 1..Len(rs) : rs[i].ok
    THEN Ok("")
    ELSE rs[CHOOSE i \in 1..Len(rs) : ~rs[i].ok /\ \A j \in 1..(i - 1) : rs[j].ok]

\* Ok of the struct val, or the first failure err among the results its
\* fields are built from (the ? operator).
Build(err, val) == IF err.ok THEN Ok(val) ELSE err

(***************************************************************************)
(* The sub-field decoders (src/src/haproxy.rs).                            *)
(***************************************************************************)
HaproxyTimers_of(s, ns) ==
    Build(FirstErr(ns),
          [raw |-> s,
           client_request |-> ns[1].val,
           queue_wait |-> ns[2].val,
           establish |-> ns[3].val,
           server_response |-> ns[4].val,
           total |-> ns[5].val])

HaproxyTimers_split(s, parts) ==
    IF Len(parts) # 5
    THEN Err("Failed to parse timers")
    ELSE HaproxyTimers_of(s, [i \in 1..5 |-> ParsePart(parts, i)])

HaproxyTimers_parse(s) == HaproxyTimers_split(s, Split(s, "/"))

HaproxyTimers_fmt(t) ==
    DisplayU64(t.client_request) \o "/" \o DisplayU64(t.queue_wait) \o "/"
    \o DisplayU64(t.establish) \o "/" \o DisplayU64(t.server_response) \o "/"
    \o DisplayU64(t.total)

HaproxyConnectionCounts_of(s, ns) ==
    Build(FirstErr(ns),
          [raw |-> s,
           current |-> ns[1].val,
           limit |-> ns[2].val,
           max |-> ns[3].val,
           total |-> ns[4].val,
           rejected |-> ns[5].val])

HaproxyConnectionCounts_split(s, parts) ==
    IF Len(parts) # 5
    THEN Err("Failed to parse connection counts")
    ELSE HaproxyConnectionCounts_of(s, [i \in 1..5 |-> ParsePart(parts, i)])

HaproxyConnectionCounts_parse(s) == HaproxyConnectionCounts_split(s, Split(s, "/"))

HaproxyConnectionCounts_fmt(c) ==
    DisplayU64(c.current) \o "/" \o DisplayU64(c.limit) \o "/" \o DisplayU64(c.max)
    \o "/" \o DisplayU64(c.total) \o "/" \o DisplayU64(c.rejected)

HaproxyQueueStats_of(ns) ==
    Build(FirstErr(ns), [server |-> ns[1].val, backend |-> ns[2].val])

HaproxyQueueStats_split(parts) ==
    IF Len(parts) # 2
    THEN Err("Failed to parse queue stats")
    ELSE HaproxyQueueStats_of([i \in 1..2 |-> ParsePart(parts, i)])

HaproxyQueueStats_parse(s) == HaproxyQueueStats_split(Split(s, "/"))

HaproxyQueueStats_fmt(q) == DisplayU64(q.server) \o "/" \o DisplayU64(q.backend)

(***************************************************************************)
(* The termination-state decoder (src/src/haproxy.rs).                     *)
(***************************************************************************)
reason_description(shorthand) ==
    CASE shorthand = "C" ->
                 "the TCP session was unexpectedly aborted by the client."
      [] shorthand = "S" ->
                 "the TCP session was unexpectedly aborted by the server, or "
              \o "the server explicitly refused it."
      [] shorthand = "P" ->
                 "the session was prematurely aborted by the proxy, because "
              \o "of a connection limit enforcement, because a DENY filter "
              \o "was matched, because of a security check which detected and "
              \o "blocked a dangerous error in server response which might "
              \o "have caused information leak (e.g. cacheable cookie)."
      [] shorthand = "L" ->
                 "the session was locally processed by HAProxy and was not "
              \o "passed to a server. This is what happens for stats and "
              \o "redirects."
      [] shorthand = "R" ->
                 "a resource on the proxy has been exhausted (memory, "
              \o "sockets, source ports, ...). Usually, this appears during "
              \o "the connection phase, and system logs should contain a copy "
              \o "of the precise error. If this happens, it must be "
              \o "considered as a very serious anomaly which should be fixed "
              \o "as soon as possible by any means."
      [] shorthand = "I" ->
                 "an internal error was identified by the proxy during a "
              \o "self-check. This should NEVER happen, and you are "
              \o "encouraged to report any log containing this, because this "
              \o "would almost certainly be a bug. It would be wise to "
              \o "preventively restart the process after such an event too, "
              \o "in case it would be caused by memory corruption."
      [] shorthand = "D" ->
                 "the session was killed by HAProxy because the server was "
              \o "detected as down and was configured to kill all connections "
              \o "when going down."
      [] shorthand = "U" ->
                 "the session was killed by HAProxy on this backup server "
              \o "because an active server was detected as up and was "
              \o "configured to kill all backup connections when going up."
      [] shorthand = "K" ->
                 "the session was actively killed by an admin operating on "
              \o "HAProxy."
      [] shorthand = "c" ->
                 "the client-side timeout expired while waiting for the "
              \o "client to send or receive data."
      [] shorthand = "s" ->
                 "the server-side timeout expired while waiting for the "
              \o "server to send or receive data."
      [] shorthand = "-" ->
                 "normal session completion, both the client and the server "
              \o "closed with nothing left in the buffers."
      [] OTHER ->
                 "Unknown termination state"

HaproxyTerminationStateEntry_reason(shorthand) ==
    [shorthand |-> shorthand, description |-> reason_description(shorthand)]

state_description(shorthand) ==
    CASE shorthand = "R" ->
                 "the proxy was waiting for a complete, valid REQUEST from "
              \o "the client (HTTP mode only). Nothing was sent to any server."
      [] shorthand = "Q" ->
                 "the proxy was waiting in the QUEUE for a connection slot. "
              \o "This can only happen when servers have a 'maxconn' "
              \o "parameter set. It can also happen in the global queue after "
              \o "a redispatch consecutive to a failed attempt to connect to "
              \o "a dying server. If no redispatch is reported, then no "
              \o "connection attempt was made to any server."
      [] shorthand = "C" ->
                 "the proxy was waiting for the CONNECTION to establish on "
              \o "the server. The server might at most have noticed a "
              \o "connection attempt."
      [] shorthand = "H" ->
                 "the proxy was waiting for complete, valid response HEADERS "
              \o "from the server (HTTP only)."
      [] shorthand = "D" ->
                 "the session was in the DATA phase."
      [] shorthand = "L" ->
                 "the proxy was still transmitting LAST data to the client "
              \o "while the server had already finished. This one is very "
              \o "rare as it can only happen when the client dies while "
              \o "receiving the last packets."
      [] shorthand = "T" ->
                 "the request was tarpitted. It has been held open with the "
              \o "client during the whole 'timeout tarpit' duration or until "
              \o "the client closed, both of which will be reported in the "
              \o "'Tw' timer."
      [] shorthand = "-" ->
                 "normal session completion after end of data transfer."
      [] OTHER ->
                 "Unknown session state"

\* The session state looked up in the table of the termination reasons.
HaproxyTerminationStateEntry_state_of_reason(shorthand) ==
    [shorthand |-> shorthand, description |-> reason_description(shorthand)]

HaproxyTerminationStateEntry_state(shorthand) ==
    [shorthand |-> shorthand, description |-> state_description(shorthand)]

cookie_description(shorthand) ==
    CASE shorthand = "N" ->
                 "the client provided NO cookie. This is usually the case for "
              \o "new visitors, so counting the number of occurrences of this "
              \o "flag in the logs generally indicate a valid trend for the "
              \o "site frequentation."
      [] shorthand = "I" ->
                 "the client provided an INVALID cookie matching no known "
              \o "server. This might be caused by a recent configuration "
              \o "change, mixed cookies between HTTP/HTTPS sites, persistence "
              \o "conditionally ignored, or an attack."
      [] shorthand = "D" ->
                 "the client provided a cookie designating a server which was "
              \o "DOWN, so either 'option persist' was used and the client "
              \o "was sent to this server, or it was not set and the client "
              \o "was redispatched to another server."
      [] shorthand = "V" ->
                 "the client provided a VALID cookie, and was sent to the "
              \o "associated server."
      [] shorthand = "E" ->
                 "the client provided a valid cookie, but with a last date "
              \o "which was older than what is allowed by the 'maxidle' "
              \o "cookie parameter, so the cookie is consider EXPIRED and is "
              \o "ignored. The request will be redispatched just as if there "
              \o "was no cookie."
      [] shorthand = "O" ->
                 "the client provided a valid cookie, but with a first date "
              \o "which was older than what is allowed by the 'maxlife' "
              \o "cookie parameter, so the cookie is consider too OLD and is "
              \o "ignored. The request will be redispatched just as if there "
              \o "was no cookie."
      [] shorthand = "U" ->
                 "a cookie was present but was not used to select the server "
              \o "because some other server selection mechanism was used "
              \o "instead (typically a 'use-server' rule)."
      [] shorthand = "-" ->
                 "does not apply (no cookie set in configuration)."
      [] OTHER ->
                 "Unknown cookie operation"

HaproxyTerminationStateEntry_cookie(shorthand) ==
    [shorthand |-> shorthand, description |-> cookie_description(shorthand)]

operations_description(shorthand) ==
    CASE shorthand = "N" ->
                 "NO cookie was provided by the server, and none was inserted "
              \o "either."
      [] shorthand = "I" ->
                 "no cookie was provided by the server, and the proxy "
              \o "INSERTED one. Note that in 'cookie insert' mode, if the "
              \o "server provides a cookie, it will still be overwritten and "
              \o "reported as 'I' here."
      [] shorthand = "U" ->
                 "the proxy UPDATED the last date in the cookie that was "
              \o "presented by the client. This can only happen in insert "
              \o "mode with 'maxidle'. It happens every time there is "
              \o "activity at a different date than the date indicated in the "
              \o "cookie. If any other change happens, such as a redispatch, "
              \o "then the cookie will be marked as inserted instead."
      [] shorthand = "P" ->
                 "a cookie was PROVIDED by the server and transmitted as-is."
      [] shorthand = "R" ->
                 "the cookie provided by the server was REWRITTEN by the "
              \o "proxy, which happens in 'cookie rewrite' or 'cookie prefix' "
              \o "modes."
      [] shorthand = "D" ->
                 "the cookie provided by the server was DELETED by the proxy."
      [] shorthand = "-" ->
                 "does not apply (no cookie set in configuration)."
      [] OTHER ->
                 "Unknown cookie operation"

HaproxyTerminationStateEntry_operations(shorthand) ==
    [shorthand |-> shorthand, description |-> operations_description(shorthand)]

\* s.chars().nth(i - 1).ok_or("")
Nth(s, i) == IF i <= Len(s) THEN Ok(CharAt(s, i)) ELSE Err("")

HaproxyTerminationState_of(s, cs) ==
    Build(FirstErr(cs),
          [raw |-> s,
           termination_reason |-> HaproxyTerminationStateEntry_reason(cs[1].val),
           session_state |-> HaproxyTerminationStateEntry_state(cs[2].val),
           persistence_cookie |-> HaproxyTerminationStateEntry_cookie(cs[3].val),
           persistence_operations |->
               HaproxyTerminationStateEntry_operations(cs[4].val)])

\* The second and third character handed to each other's lookup.
HaproxyTerminationState_parse_swapped(s) ==
    HaproxyTerminationState_of(s, <<Nth(s, 1), Nth(s, 3), Nth(s, 2), Nth(s, 4)>>)

HaproxyTerminationState_parse(s) ==
    HaproxyTerminationState_of(s, <<Nth(s, 1), Nth(s, 2), Nth(s, 3), Nth(s, 4)>>)

\* The comparison of the fourth shorthand left out.
HaproxyTerminationState_is_error_of_three(t) ==
    ~(/\ t.termination_reason.shorthand = "-"
      /\ t.session_state.shorthand = "-"
      /\ t.persistence_cookie.shorthand = "-")

HaproxyTerminationState_is_error(t) ==
    ~(/\ t.termination_reason.shorthand = "-"
      /\ t.session_state.shorthand = "-"
      /\ t.persistence_cookie.shorthand = "-"
      /\ t.persistence_operations.shorthand = "-")

HaproxyTerminationState_fmt(t) ==
    t.termination_reason.shorthand \o t.session_state.shorthand
    \o t.persistence_cookie.shorthand \o t.persistence_operations.shorthand

(***************************************************************************)
(* The log entry (src/src/haproxy.rs).                                     *)
(***************************************************************************)
\* The struct of HaproxyLogEntry::parse: name gives the text of the capture
\* groups, the other four are the decoded sub-structures.
Entry(name, timers, termination_state, conn_counts, queue) ==
    [month |-> name["month"],
     day |-> name["day"],
     time |-> name["time"],
     host |-> name["host"],
     process_id |-> name["process_id"],
     source_ip_port |-> name["source_ip_port"],
     time_stamp_accepted |-> name["time_stamp_accepted"],
     frontend_name |-> name["frontend_name"],
     backend_name |-> name["backend_name"],
     server_name |-> name["server_name"],
     timers |-> timers,
     response_code |-> name["response_code"],
     bytes_read |-> name["bytes_read"],
     termination_state |-> termination_state,
     conn_counts |-> conn_counts,
     queue |-> queue,
     request |-> name["request"]]

\* A decoder failure swallowed (unwrap_or_default on conn_counts): an entry
\* is returned whose connection counts were never validated.
HaproxyLogEntry_of_lenient(name, timers, termination_state, conn_counts, queue) ==
    Build(FirstErr(<<timers, termination_state, queue>>),
          Entry(name, timers.val, termination_state.val,
                IF conn_counts.ok
                THEN conn_counts.val
                ELSE [raw |-> "", current |-> "0", limit |-> "0", max |-> "0",
                      total |-> "0", rejected |-> "0"],
                queue.val))

\* The results of the four sub-decoders, in the order of the fields of the
\* struct expression: the first failure is returned (the ? operator).
HaproxyLogEntry_of(name, timers, termination_state, conn_counts, queue) ==
    Build(FirstErr(<<timers, termination_state, conn_counts, queue>>),
          Entry(name, timers.val, termination_state.val, conn_counts.val, queue.val))

HaproxyLogEntry_captured(captures) ==
    IF ~captures.ok
    THEN Err("Failed to parse line")
    ELSE HaproxyLogEntry_of(captures.name,
                            HaproxyTimers_parse(captures.name["queues_stats"]),
                            HaproxyTerminationState_parse(captures.name["termination_state"]),
                            HaproxyConnectionCounts_parse(captures.name["conn_counts"]),
                            HaproxyQueueStats_parse(captures.name["queue"]))

HaproxyLogEntry_parse(s) == HaproxyLogEntry_captured(RE_captures(s))

\* The format arguments response_code and bytes_read in the wrong order.
HaproxyLogEntry_colorless_swapped(e) ==
    e.month \o " " \o e.day \o " " \o e.time \o " " \o e.host \o " "
    \o e.process_id \o " " \o e.source_ip_port \o " " \o e.time_stamp_accepted
    \o " " \o e.frontend_name \o " " \o e.backend_name \o " " \o e.server_name
    \o " " \o HaproxyTimers_fmt(e.timers) \o " " \o e.bytes_read \o " "
    \o e.response_code \o " " \o HaproxyTerminationState_fmt(e.termination_state)
    \o " " \o HaproxyConnectionCounts_fmt(e.conn_counts) \o " "
    \o HaproxyQueueStats_fmt(e.queue) \o " " \o e.request

HaproxyLogEntry_colorless(e) ==
    e.month \o " " \o e.day \o " " \o e.time \o " " \o e.host \o " "
    \o e.process_id \o " " \o e.source_ip_port \o " " \o e.time_stamp_accepted
    \o " " \o e.frontend_name \o " " \o e.backend_name \o " " \o e.server_name
    \o " " \o HaproxyTimers_fmt(e.timers) \o " " \o e.response_code \o " "
    \o e.bytes_read \o " " \o HaproxyTerminationState_fmt(e.termination_state)
    \o " " \o HaproxyConnectionCounts_fmt(e.conn_counts) \o " "
    \o HaproxyQueueStats_fmt(e.queue) \o " " \o e.request

\* An unparseable response code taken for no error (Err(_) => false).
IsErrorCode_lenient(code, termination_state) ==
    IF code.ok
    THEN code.val >= 400 \/ HaproxyTerminationState_is_error(termination_state)
    ELSE FALSE

\* The match of is_error on the parsed response code.
IsErrorCode(code, termination_state) ==
    IF code.ok
    THEN code.val >= 400 \/ HaproxyTerminationState_is_error(termination_state)
    ELSE TRUE

HaproxyLogEntry_is_error(e) == IsErrorCode(parse_u16(e.response_code), e.termination_state)

(***************************************************************************)
(* Inputs.                                                                 *)
(***************************************************************************)
\* The longest run of zeros put before a numeral.
MaxLeadingZeros == 1

\* The longest run of spaces and tabs put between two fields.
MaxRun == 2

\* The largest number of segments of a sub-field text.
MaxSegments == 6

\* The longest termination code.
MaxCodeLen == 5

RECURSIVE Zeros(_)
Zeros(n) == IF n = 0 THEN "" ELSE "0" \o Zeros(n - 1)

ZeroPadded(n) == {Zeros(z) \o n : z \in 0..MaxLeadingZeros}

\* Runs of n spaces and tabs.
RECURSIVE Runs(_)
Runs(n) == IF n = 0 THEN {""} ELSE {r \o c : r \in Runs(n - 1), c \in {" ", "\t"}}

WsRuns == UNION {Runs(n) : n \in 1..MaxRun}

\* A line laid out as HAProxy writes it: f gives the 17 fields and sp the
\* whitespace put between two fields.
MakeLine(f) ==
    f.month \o f.sp \o f.day \o f.sp \o f.time \o f.sp \o f.host \o f.sp
    \o f.process_id \o ":" \o f.sp \o f.source_ip_port \o f.sp
    \o "[" \o f.time_stamp_accepted \o "]" \o f.sp \o f.frontend_name \o f.sp
    \o f.backend_name \o "/" \o f.server_name \o f.sp \o f.queues_stats \o f.sp
    \o f.response_code \o f.sp \o f.bytes_read \o " - - " \o f.termination_state
    \o " " \o f.conn_counts \o f.sp \o f.queue \o f.sp \o "\"" \o f.request \o "\""

\* The example line of the source (src/src/haproxy.rs:243), names shortened.
Sample ==
    [sp |-> " ", month |-> "May", day |-> "8", time |-> "00:08:30", host |-> "lb05",
     process_id |-> "haproxy[3091]", source_ip_port |-> "127.0.0.1:6102",
     time_stamp_accepted |-> "08/May/2024:00:08:30.660", frontend_name |-> "mclbfe",
     backend_name |-> "silo-be", server_name |-> "node16",
     queues_stats |-> "0/0/9/17/26", response_code |-> "200", bytes_read |-> "1005",
     termination_state |-> "----", conn_counts |-> "823/541/29/2/0", queue |-> "0/0",
     request |-> "GET /silo HTTP/1.1"]

Profiles ==
    {Sample,
     [Sample EXCEPT !.sp = "  ", !.day = "08", !.host = "h_1",
                    !.time_stamp_accepted = "a] [b", !.backend_name = "-b",
                    !.server_name = "s-", !.bytes_read = "0", !.request = ""],
     [Sample EXCEPT !.sp = "\t", !.request = "say \"hi\"  twice"]}

ResponseCodes ==
    {"0", "199", "200", "302", "399", "400", "404", "503", "65535", "65536",
     "99999999999"} \cup ZeroPadded("200")

TerminationCodes == {"----", "C---", "-R--", "--N-", "---I", "cD--", "SHVU", "x_9-"}

TimerTexts ==
    {"0/0/9/17/26", "0/0/0/0/18446744073709551615", "0/0/0/0/18446744073709551616"}
    \cup {"1/" \o n \o "/3/4/5" : n \in ZeroPadded("7")}

CountTexts ==
    {"823/541/29/2/0", "18446744073709551616/0/0/0/0"}
    \cup {n \o "/0/0/0/0" : n \in ZeroPadded("0")}

QueueTexts == {"0/0", "0/18446744073709551616"} \cup {"1/" \o n : n \in ZeroPadded("2")}

\* Lines of the grammar: every response code with every termination code,
\* and every profile with every text of the three numeric sub-fields.
GrammarLines ==
    {MakeLine([Sample EXCEPT !.response_code = rc, !.termination_state = ts]) :
        rc \in ResponseCodes, ts \in TerminationCodes}
    \cup {MakeLine([pf EXCEPT !.queues_stats = tm, !.conn_counts = cc, !.queue = q]) :
            pf \in Profiles, tm \in TimerTexts, cc \in CountTexts, q \in QueueTexts}

\* Damaged lines: the sample line cut short, and with one character lost.
DamagedLines ==
    LET l == MakeLine(Sample)
    IN  {SubSeq(l, 1, n) : n \in 0..(Len(l) - 1)}
        \cup {SubSeq(l, 1, i - 1) \o SubSeq(l, i + 1, Len(l)) : i \in 1..Len(l)}

Lines == GrammarLines \cup DamagedLines

(***************************************************************************)
(* Decoding one line: the body of the loop of main (src/src/main.rs).      *)
(***************************************************************************)
NoOutput == [res |-> Err("not run")]

\* main not started and no concurrent call made.
Idle ==
    /\ args = "none"
    /\ reader = <<>>
    /\ stdout = <<>>
    /\ stderr = <<>>
    /\ pc = "idle"
    /\ calls = <<>>
    /\ re_cell = "unused"

Init ==
    /\ input \in Lines
    /\ op = "none"
    /\ output = NoOutput
    /\ orig = NoOutput
    /\ Idle

Decoded(r) ==
    IF r.ok
    THEN [res |-> r,
          is_error |-> HaproxyLogEntry_is_error(r.val),
          colorless |-> HaproxyLogEntry_colorless(r.val)]
    ELSE [res |-> r]

\* HaproxyLogEntry::parse(&line), and on Ok(entry) what the loop reads of
\* the entry: entry.is_error() and entry.colorless().
Decode ==
    /\ op = "none"
    /\ op' = "HaproxyLogEntry::parse"
    /\ output' = Decoded(HaproxyLogEntry_parse(input))
    /\ UNCHANGED <<input, orig>>
    /\ UNCHANGED <<main_vars, call_vars>>

Next == Decode

Spec == Init /\ [][Next]_vars

(***************************************************************************)
(* Properties of the decoding of one line.                                 *)
(***************************************************************************)
DecodedLine == op = "HaproxyLogEntry::parse"

\* s with every run of whitespace replaced by one space.
Glue(a, b) ==
    IF a # "" /\ b # "" /\ CharAt(a, Len(a)) = " " /\ CharAt(b, 1) = " "
    THEN a \o SubSeq(b, 2, Len(b))
    ELSE a \o b

RECURSIVE Collapse(_)
Collapse(s) ==
    IF Len(s) = 0
    THEN ""
    ELSE IF Len(s) = 1
    THEN IF ClassHas("space", s) THEN " " ELSE s
    ELSE Glue(Collapse(SubSeq(s, 1, Len(s) \div 2)),
              Collapse(SubSeq(s, Len(s) \div 2 + 1, Len(s))))

RECURSIVE JoinWith(_, _)
JoinWith(parts, sep) ==
    IF Len(parts) = 0
    THEN ""
    ELSE IF Len(parts) = 1
    THEN parts[1]
    ELSE parts[1] \o sep \o JoinWith(Tail(parts), sep)

\* A segment of a numeric sub-field is well-formed: digits only, at least
\* one, of a value that fits in 64 bits.
IsU64Numeral(seg) ==
    /\ seg # ""
    /\ CharsOf(seg) \subseteq AsciiDigit
    /\ ~NumeralGreater(Canonical(seg), U64_MAX)

AllU64(parts, n) == Len(parts) = n /\ \A i \in 1..Len(parts) : IsU64Numeral(parts[i])

WellFormed(text, n) == AllU64(Split(text, "/"), n)

WellFormedNumerics(name) ==
    /\ WellFormed(name["queues_stats"], 5)
    /\ WellFormed(name["conn_counts"], 5)
    /\ WellFormed(name["queue"], 2)

\* The integers of a numeric sub-field text, each written canonically.
CanonicalSegments(parts) == JoinWith([i \in 1..Len(parts) |-> Canonical(parts[i])], "/")

\* The 17 matched texts in the order of colorless(); numeric tells how the
\* text of a numeric sub-field is written.
Components(name, numeric(_)) ==
    <<name["month"], name["day"], name["time"], name["host"], name["process_id"],
      name["source_ip_port"], name["time_stamp_accepted"], name["frontend_name"],
      name["backend_name"], name["server_name"], numeric(name["queues_stats"]),
      name["response_code"], name["bytes_read"], name["termination_state"],
      numeric(name["conn_counts"]), numeric(name["queue"]), name["request"]>>

AsMatched(text) == text

AsIntegers(text) == CanonicalSegments(Split(text, "/"))

\* The line whose fields are name, laid out with one space between fields.
Layout(name) == MakeLine([g \in GroupNames \cup {"sp"} |-> IF g = "sp" THEN " " ELSE name[g]])

RoundTripAsClaimed(c, out) ==
    (c.ok /\ WellFormedNumerics(c.name))
        => out.res.ok /\ Collapse(out.colorless) = Collapse(input)

\* C1 as stated: for every line that matches the grammar with well-formed
\* numeric sub-fields, parse succeeds and colorless() equals the line up
\* to the lengths of its whitespace runs, punctuation included.
C1_RoundTripAsClaimed == DecodedLine => RoundTripAsClaimed(RE_captures(input), output)

RoundTrip(c, out) ==
    (c.ok /\ WellFormedNumerics(c.name))
        => /\ out.res.ok
           /\ out.colorless = JoinWith(Components(c.name, AsIntegers), " ")
           /\ Collapse(input) = Collapse(Layout(c.name))

\* C1 amended: for every line that matches the grammar with well-formed
\* numeric sub-fields, parse succeeds, the line is its 17 matched fields
\* with the punctuation of the grammar between them, and colorless() is
\* these 17 fields joined by single spaces without that punctuation, the
\* integers of timers, conn_counts and queue written in canonical decimal.
C1_RoundTrip == DecodedLine => RoundTrip(RE_captures(input), output)

\* C1 witness: a decoded line whose whitespace runs are not single spaces,
\* one of its integers written with a leading zero.
C1_Witness ==
    /\ DecodedLine
    /\ output.res.ok
    /\ Collapse(input) # input
    /\ output.res.val.timers.raw # HaproxyTimers_fmt(output.res.val.timers)

IsErrorLaw(e, code, is_error) ==
    /\ is_error <=> \/ ~code.ok
                    \/ code.val >= 400
                    \/ HaproxyTerminationState_is_error(e.termination_state)
    /\ (code.ok /\ code.val \in 200..399 /\ e.termination_state.raw = "----")
          => ~is_error

\* C3: for a decoded entry, is_error() holds iff the response code does not
\* parse as a u16, or parses to at least 400, or the termination state is
\* an error; it is false for a code in 200..399 with termination "----".
C3_IsError ==
    (DecodedLine /\ output.res.ok)
        => IsErrorLaw(output.res.val, parse_u16(output.res.val.response_code),
                      output.is_error)

\* C3 witness: a decoded entry whose response code is a digit string above
\* 65535, its termination state "----", reported as an error.
C3_Witness ==
    /\ DecodedLine
    /\ output.res.ok
    /\ output.res.val.response_code = "65536"
    /\ output.res.val.termination_state.raw = "----"
    /\ output.is_error

IsU64Value(v) == IsU64Numeral(v) /\ v = Canonical(v)

\* The entry e is complete for the matched texts name: all 17 fields are
\* there, the 13 text fields are the matched texts, and the four
\* sub-structures are the validated values of the four sub-decoders.
Complete(e, name, timers, termination_state, conn_counts, queue) ==
    /\ DOMAIN e = (GroupNames \ {"queues_stats"}) \cup {"timers"}
    /\ \A g \in GroupNames \ {"queues_stats", "termination_state", "conn_counts", "queue"} :
          e[g] = name[g]
    /\ timers.ok /\ e.timers = timers.val
    /\ termination_state.ok /\ e.termination_state = termination_state.val
    /\ conn_counts.ok /\ e.conn_counts = conn_counts.val
    /\ queue.ok /\ e.queue = queue.val
    /\ \A f \in DOMAIN e.timers \ {"raw"} : IsU64Value(e.timers[f])
    /\ \A f \in DOMAIN e.conn_counts \ {"raw"} : IsU64Value(e.conn_counts[f])
    /\ \A f \in DOMAIN e.queue \ {"raw"} : IsU64Value(e.queue[f])

AllOrNothing(res, c, timers, termination_state, conn_counts, queue) ==
    /\ ~IsPanic(res)
    /\ res.ok <=> /\ c.ok
                  /\ timers.ok
                  /\ termination_state.ok
                  /\ conn_counts.ok
                  /\ queue.ok
    /\ res.ok => Complete(res.val, c.name, timers, termination_state, conn_counts, queue)
    /\ ~res.ok => DOMAIN res = {"ok", "err"}

AllOrNothingOf(res, c) ==
    AllOrNothing(res, c,
                 HaproxyTimers_parse(c.name["queues_stats"]),
                 HaproxyTerminationState_parse(c.name["termination_state"]),
                 HaproxyConnectionCounts_parse(c.name["conn_counts"]),
                 HaproxyQueueStats_parse(c.name["queue"]))

\* C7: parse returns either a complete entry (17 fields, the four
\* sub-structures validated) or one failure value: it succeeds iff the
\* grammar matches and the four sub-decoders succeed, a failure carries no
\* entry, and no input makes it panic.
C7_AllOrNothing == DecodedLine => AllOrNothingOf(output.res, RE_captures(input))

\* C7 witness: a line that matches the grammar and is refused because one
\* sub-decoder failed.
C7_Witness ==
    /\ DecodedLine
    /\ ~output.res.ok
    /\ RE_captures(input).ok

\* C10 as stated: for a decoded entry, colorless() is the 17 components in
\* order separated by one space each, the timers, termination_state,
\* conn_counts and queue components being the matched substrings.
C10_ColorlessAsClaimed ==
    (DecodedLine /\ output.res.ok)
        => output.colorless = JoinWith(Components(RE_captures(input).name, AsMatched), " ")

(***************************************************************************)
(* The termination state decoder on its own (src/src/haproxy.rs:40-181).   *)
(***************************************************************************)
\* The characters of the termination codes tried at all four positions.
CodeChars == {"-", "C", "Q", "N", "x"}

\* The characters handed to the four lookups.
LookupChars == AsciiAlpha \cup AsciiDigit \cup {"-", "_", " ", "?"}

RECURSIVE CodesOver(_, _)
CodesOver(chars, n) ==
    IF n = 0 THEN {""} ELSE {c \o d : c \in CodesOver(chars, n - 1), d \in chars}

Codes ==
    CodesOver(CodeChars, 4)
    \cup UNION {CodesOver({"-", "P"}, n) : n \in 0..MaxCodeLen}
    \cup LookupChars

InitTermination ==
    /\ input \in Codes
    /\ op = "none"
    /\ output = NoOutput
    /\ orig = NoOutput
    /\ Idle

TerminationDecoded(r) ==
    IF r.ok
    THEN [res |-> r,
          is_error |-> HaproxyTerminationState_is_error(r.val),
          fmt |-> HaproxyTerminationState_fmt(r.val)]
    ELSE [res |-> r]

\* HaproxyTerminationState::parse(input), its is_error() and its Display.
TerminationParse ==
    /\ op = "none"
    /\ op' = "HaproxyTerminationState::parse"
    /\ output' = TerminationDecoded(HaproxyTerminationState_parse(input))
    /\ UNCHANGED <<input, orig>>
    /\ UNCHANGED <<main_vars, call_vars>>

\* HaproxyTerminationStateEntry::reason(c), c the character input.
Reason ==
    /\ op = "none"
    /\ Len(input) = 1
    /\ op' = "HaproxyTerminationStateEntry::reason"
    /\ output' = [res |-> Ok(HaproxyTerminationStateEntry_reason(input))]
    /\ UNCHANGED <<input, orig>>
    /\ UNCHANGED <<main_vars, call_vars>>

\* HaproxyTerminationStateEntry::state(c), c the character input.
State ==
    /\ op = "none"
    /\ Len(input) = 1
    /\ op' = "HaproxyTerminationStateEntry::state"
    /\ output' = [res |-> Ok(HaproxyTerminationStateEntry_state(input))]
    /\ UNCHANGED <<input, orig>>
    /\ UNCHANGED <<main_vars, call_vars>>

\* HaproxyTerminationStateEntry::cookie(c), c the character input.
Cookie ==
    /\ op = "none"
    /\ Len(input) = 1
    /\ op' = "HaproxyTerminationStateEntry::cookie"
    /\ output' = [res |-> Ok(HaproxyTerminationStateEntry_cookie(input))]
    /\ UNCHANGED <<input, orig>>
    /\ UNCHANGED <<main_vars, call_vars>>

\* HaproxyTerminationStateEntry::operations(c), c the character input.
Operations ==
    /\ op = "none"
    /\ Len(input) = 1
    /\ op' = "HaproxyTerminationStateEntry::operations"
    /\ output' = [res |-> Ok(HaproxyTerminationStateEntry_operations(input))]
    /\ UNCHANGED <<input, orig>>
    /\ UNCHANGED <<main_vars, call_vars>>

NextTermination == TerminationParse \/ Reason \/ State \/ Cookie \/ Operations

SpecTermination == InitTermination /\ [][NextTermination]_vars

DecodedTermination == op = "HaproxyTerminationState::parse" /\ output.res.ok

\* C4: for a decoded termination state, is_error() is false iff all four
\* shorthands are '-', that is iff the 4-character code is "----".
C4_TerminationIsError ==
    DecodedTermination
        => /\ ~output.is_error <=> output.fmt = "----"
           /\ Len(input) = 4 => (~output.is_error <=> input = "----")

\* C4 witness: a decoded 4-character code with exactly one position that
\* is not '-', reported as an error.
C4_Witness ==
    /\ DecodedTermination
    /\ Len(input) = 4
    /\ Cardinality({i \in 1..4 : CharAt(input, i) # "-"}) = 1
    /\ output.is_error

\* C5: for a 4-character code, parse succeeds, the characters 0..3 are the
\* shorthands of termination_reason, session_state, persistence_cookie and
\* persistence_operations, and raw is the four shorthands in that order,
\* the 4 characters given, and the Display rendering.
C5_TerminationParse ==
    (op = "HaproxyTerminationState::parse" /\ Len(input) = 4)
        => /\ output.res.ok
           /\ output.res.val.termination_reason.shorthand = CharAt(input, 1)
           /\ output.res.val.session_state.shorthand = CharAt(input, 2)
           /\ output.res.val.persistence_cookie.shorthand = CharAt(input, 3)
           /\ output.res.val.persistence_operations.shorthand = CharAt(input, 4)
           /\ output.res.val.raw =
                 output.res.val.termination_reason.shorthand
                 \o output.res.val.session_state.shorthand
                 \o output.res.val.persistence_cookie.shorthand
                 \o output.res.val.persistence_operations.shorthand
           /\ output.res.val.raw = input
           /\ output.fmt = output.res.val.raw

\* C5 witness: a decoded code of four different characters.
C5_Witness ==
    /\ DecodedTermination
    /\ Len(input) = 4
    /\ Cardinality(CharsOf(input)) = 4

\* The alphabets of the four categories.
Alphabet ==
    [reason |-> CharsOf("CSPLRIDUKcs-"),
     state |-> CharsOf("RQCHDLT-"),
     cookie |-> CharsOf("NIDVEOU-"),
     operations |-> CharsOf("NIUPRD-")]

IsPlaceholder(description) == SubSeq(description, 1, 8) = "Unknown "

\* entry is what the lookup of category cat is to return for character c.
LookupLaw(cat, c, entry) ==
    /\ DOMAIN entry = {"shorthand", "description"}
    /\ entry.shorthand = c
    /\ IsPlaceholder(entry.description) <=> c \notin Alphabet[cat]
    /\ entry.description # ""

\* C6: each of the four lookups returns an entry whose shorthand is the
\* character given and whose description is the "Unknown ..." placeholder
\* exactly when the character is outside the alphabet of the category; in
\* a decoded code every position is the lookup of its own character alone.
C6_Lookups ==
    /\ \A cat \in DOMAIN Alphabet :
          op = "HaproxyTerminationStateEntry::" \o cat
              => LookupLaw(cat, input, output.res.val)
    /\ DecodedTermination
          => /\ LookupLaw("reason", CharAt(input, 1), output.res.val.termination_reason)
             /\ LookupLaw("state", CharAt(input, 2), output.res.val.session_state)
             /\ LookupLaw("cookie", CharAt(input, 3), output.res.val.persistence_cookie)
             /\ LookupLaw("operations", CharAt(input, 4),
                          output.res.val.persistence_operations)

\* C6 witness: the session state lookup given a character of the alphabet
\* of the termination reasons only, answered by the placeholder.
C6_Witness ==
    /\ op = "HaproxyTerminationStateEntry::state"
    /\ input \in Alphabet["reason"] \ Alphabet["state"]
    /\ output.res.val.shorthand = input
    /\ output.res.val.description = "Unknown session state"

(***************************************************************************)
(* The three numeric sub-field decoders on their own                       *)
(* (src/src/haproxy.rs:15-37, 193-241).                                    *)
(***************************************************************************)
\* The segments tried: well-formed ones, zero-padded ones, and damaged ones.
Segments ==
    {"", "0", "+5", "-1", "12a", "18446744073709551615", "18446744073709551616"}
    \cup ZeroPadded("7")

\* Texts of n segments: all "3" but for the segments i and j.
TextsOf(n) ==
    {JoinWith([k \in 1..n |-> IF k = i THEN a ELSE IF k = j THEN b ELSE "3"], "/") :
        i \in 1..n, j \in 1..n, a \in Segments, b \in Segments}

Texts == UNION {TextsOf(n) : n \in 1..MaxSegments}

InitFields ==
    /\ input \in Texts
    /\ op = "none"
    /\ output = NoOutput
    /\ orig = NoOutput
    /\ Idle

TimersDecoded(r) == IF r.ok THEN [res |-> r, fmt |-> HaproxyTimers_fmt(r.val)] ELSE [res |-> r]

\* HaproxyTimers::parse(input) and the Display of its value.
TimersParse ==
    /\ op = "none"
    /\ op' = "HaproxyTimers::parse"
    /\ output' = TimersDecoded(HaproxyTimers_parse(input))
    /\ UNCHANGED <<input, orig>>
    /\ UNCHANGED <<main_vars, call_vars>>

ConnectionCountsDecoded(r) == IF r.ok THEN [res |-> r, fmt |-> HaproxyConnectionCounts_fmt(r.val)] ELSE [res |-> r]

\* HaproxyConnectionCounts::parse(input) and the Display of its value.
ConnectionCountsParse ==
    /\ op = "none"
    /\ op' = "HaproxyConnectionCounts::parse"
    /\ output' = ConnectionCountsDecoded(HaproxyConnectionCounts_parse(input))
    /\ UNCHANGED <<input, orig>>
    /\ UNCHANGED <<main_vars, call_vars>>

QueueStatsDecoded(r) == IF r.ok THEN [res |-> r, fmt |-> HaproxyQueueStats_fmt(r.val)] ELSE [res |-> r]

\* HaproxyQueueStats::parse(input) and the Display of its value.
QueueStatsParse ==
    /\ op = "none"
    /\ op' = "HaproxyQueueStats::parse"
    /\ output' = QueueStatsDecoded(HaproxyQueueStats_parse(input))
    /\ UNCHANGED <<input, orig>>
    /\ UNCHANGED <<main_vars, call_vars>>

NextFields == TimersParse \/ ConnectionCountsParse \/ QueueStatsParse

SpecFields == InitFields /\ [][NextFields]_vars

\* The number of segments each sub-field decoder expects.
Arity ==
    [t \in {"HaproxyTimers::parse", "HaproxyConnectionCounts::parse",
            "HaproxyQueueStats::parse"} |->
        IF t = "HaproxyQueueStats::parse" THEN 2 ELSE 5]

DecodedField == op \in DOMAIN Arity

\* C2 as stated: for every text of unsigned integers, leading zeros
\* allowed, that a sub-field decoder accepts, the Display
\* of the decoded value is that text, and so is the raw field kept by
\* HaproxyTimers and HaproxyConnectionCounts.
C2_DisplayAsClaimed ==
    (DecodedField /\ output.res.ok /\ WellFormed(input, Arity[op]))
        => /\ output.fmt = input
           /\ "raw" \in DOMAIN output.res.val => output.res.val.raw = output.fmt

\* C8 as stated: a sub-field decoder succeeds iff the text splits on '/'
\* into exactly the expected number of segments (5, 5, 2), each one an
\* unsigned string of digits with no sign and no leading '+' whose value
\* fits in 64 bits.
C8_DecoderAsClaimed ==
    DecodedField
        => /\ ~IsPanic(output.res)
           /\ output.res.ok <=> WellFormed(input, Arity[op])

(***************************************************************************)
(* A line decoded, the whitespace between two of its fields replaced, and  *)
(* the line decoded again.                                                 *)
(***************************************************************************)
\* The whitespace items of RE: the places between two adjacent fields.
SpaceItems == {k \in 1..Len(RE) : RE[k].cls = "space"}

SpaceLines ==
    {MakeLine(pf) : pf \in Profiles}
    \cup {MakeLine([Sample EXCEPT !.queues_stats = "0/0/0/0/18446744073709551616"])}

InitSpace ==
    /\ input \in SpaceLines
    /\ op = "none"
    /\ output = NoOutput
    /\ orig = NoOutput
    /\ Idle

\* s with the text its item k matched, under item ends ends, replaced by w.
Respaced(s, ends, k, w) == SubSeq(s, 1, ends[k - 1] - 1) \o w \o SubSeq(s, ends[k], Len(s))

RespaceWith(m) ==
    /\ m.ok
    /\ \E k \in SpaceItems, w \in WsRuns : input' = Respaced(input, m.ends, k, w)

\* The whitespace that one whitespace item of the grammar matched in the
\* decoded line is replaced by a run of spaces and tabs; the outcome of the
\* line is kept in orig, and the new line is to be decoded.
Respace ==
    /\ op = "HaproxyLogEntry::parse"
    /\ orig = NoOutput
    /\ RespaceWith(MatchFrom(RE, input))
    /\ orig' = [line |-> input, res |-> output.res]
    /\ op' = "none"
    /\ output' = NoOutput
    /\ UNCHANGED <<main_vars, call_vars>>

NextSpace == Decode \/ Respace

SpecSpace == InitSpace /\ [][NextSpace]_vars

\* C9 as stated: a line the grammar accepts, the whitespace between two
\* adjacent fields replaced by any run of one or more spaces or tabs, is
\* accepted by the grammar too and decodes to the same outcome.
C9_WhitespaceAsClaimed ==
    (DecodedLine /\ orig # NoOutput)
        => RE_captures(input).ok /\ output.res = orig.res

(***************************************************************************)
(* Concurrent calls of HaproxyLogEntry::parse.  The calls share the static *)
(* RE, a once_cell Lazy<Regex> (src/src/main.rs:12): the first call to     *)
(* dereference it compiles the pattern while the others wait, and every    *)
(* later dereference reads the compiled value.                             *)
(***************************************************************************)
\* The number of concurrent calls.
MaxCalls == 2

Callers == 1..MaxCalls

CallLines ==
    {MakeLine(Sample),
     MakeLine([Sample EXCEPT !.response_code = "503"]),
     MakeLine([Sample EXCEPT !.conn_counts = "18446744073709551616/0/0/0/0"]),
     SubSeq(MakeLine(Sample), 1, 40)}

\* The Lazy cell before its first dereference.
Uninit == [state |-> "uninit", by |-> 0, regex |-> <<>>, inits |-> 0]

InitCalls ==
    /\ calls \in [Callers -> [line : CallLines, pc : {"call"}, res : {Err("not returned")}]]
    /\ re_cell = Uninit
    /\ input = ""
    /\ op = "none"
    /\ output = NoOutput
    /\ orig = NoOutput
    /\ args = "none"
    /\ reader = <<>>
    /\ stdout = <<>>
    /\ stderr = <<>>
    /\ pc = "idle"

\* A dereference made while another call compiles, taken for the first one:
\* the cell is not synchronised and the pattern is compiled again.
LazyForce_unsynchronised(cell, t) ==
    IF cell.state = "ready"
    THEN [cell |-> cell, pc |-> "captures"]
    ELSE [cell |-> [cell EXCEPT !.state = "running", !.by = t], pc |-> "compile"]

\* Lazy::force by call t: the cell after it and the place the call goes to;
\* a call that finds the cell being initialized waits.
LazyForce(cell, t) ==
    IF cell.state = "ready"
    THEN [cell |-> cell, pc |-> "captures"]
    ELSE IF cell.state = "uninit"
    THEN [cell |-> [cell EXCEPT !.state = "running", !.by = t], pc |-> "compile"]
    ELSE [cell |-> cell, pc |-> "call"]

Forced(t, f) ==
    /\ f.pc # "call"
    /\ re_cell' = f.cell
    /\ calls' = [calls EXCEPT ![t].pc = f.pc]

\* Call t dereferences RE.
Deref(t) ==
    /\ calls[t].pc = "call"
    /\ Forced(t, LazyForce(re_cell, t))
    /\ UNCHANGED <<input, op, output, orig, main_vars>>

\* Call t, the first to dereference RE, compiles the pattern and stores it.
Compile(t) ==
    /\ calls[t].pc = "compile"
    /\ re_cell' = [state |-> "ready", by |-> t, regex |-> RE, inits |-> re_cell.inits + 1]
    /\ calls' = [calls EXCEPT ![t].pc = "captures"]
    /\ UNCHANGED <<input, op, output, orig, main_vars>>

\* Call t matches its line against the compiled pattern and builds its
\* result.
Captures(t) ==
    /\ calls[t].pc = "captures"
    /\ calls' = [calls EXCEPT
                   ![t].pc = "returned",
                   ![t].res = HaproxyLogEntry_captured(
                                  Captured(calls[t].line,
                                           MatchFrom(re_cell.regex, calls[t].line)))]
    /\ UNCHANGED <<input, op, output, orig, main_vars, re_cell>>

NextCalls == \E t \in Callers : Deref(t) \/ Compile(t) \/ Captures(t)

SpecCalls == InitCalls /\ [][NextCalls]_vars

\* C11: under every interleaving of concurrent calls, a call returns what
\* parse returns for its line alone, two calls on the same line return
\* equal results, and the shared RE is written once and holds the compiled
\* pattern from then on.
C11_PureDecode ==
    /\ \A t \in Callers :
          calls[t].pc = "returned" => calls[t].res = HaproxyLogEntry_parse(calls[t].line)
    /\ \A t, u \in Callers :
          (calls[t].pc = "returned" /\ calls[u].pc = "returned"
           /\ calls[t].line = calls[u].line)
              => calls[t].res = calls[u].res
    /\ re_cell.inits <= 1
    /\ re_cell.state = "ready" <=> re_cell.inits = 1
    /\ re_cell.state = "ready" => re_cell.regex = RE

\* C11 witness: all calls have returned, two of them on the same accepted
\* line, RE compiled by one of them only.
C11_Witness ==
    /\ \A t \in Callers : calls[t].pc = "returned"
    /\ calls[1].line = calls[2].line
    /\ calls[1].res.ok
    /\ re_cell.inits = 1

(***************************************************************************)
(* The serialized form of a decoded entry: #[derive(Serialize)] writes a   *)
(* struct as a map of its fields, a String as a string, a u64 as a number  *)
(* and a char as a string of one character (src/src/haproxy.rs).           *)
(***************************************************************************)
Serialize_u64(v) == [number |-> v]

Serialize_HaproxyTimers(t) ==
    [raw |-> t.raw,
     client_request |-> Serialize_u64(t.client_request),
     queue_wait |-> Serialize_u64(t.queue_wait),
     establish |-> Serialize_u64(t.establish),
     server_response |-> Serialize_u64(t.server_response),
     total |-> Serialize_u64(t.total)]

Serialize_HaproxyTerminationStateEntry(e) ==
    [shorthand |-> e.shorthand, description |-> e.description]

Serialize_HaproxyTerminationState(t) ==
    [raw |-> t.raw,
     termination_reason |-> Serialize_HaproxyTerminationStateEntry(t.termination_reason),
     session_state |-> Serialize_HaproxyTerminationStateEntry(t.session_state),
     persistence_cookie |-> Serialize_HaproxyTerminationStateEntry(t.persistence_cookie),
     persistence_operations |->
         Serialize_HaproxyTerminationStateEntry(t.persistence_operations)]

Serialize_HaproxyConnectionCounts(c) ==
    [raw |-> c.raw,
     current |-> Serialize_u64(c.current),
     limit |-> Serialize_u64(c.limit),
     max |-> Serialize_u64(c.max),
     total |-> Serialize_u64(c.total),
     rejected |-> Serialize_u64(c.rejected)]

Serialize_HaproxyQueueStats(q) ==
    [server |-> Serialize_u64(q.server), backend |-> Serialize_u64(q.backend)]

Serialize_HaproxyLogEntry(e) ==
    [month |-> e.month,
     day |-> e.day,
     time |-> e.time,
     host |-> e.host,
     process_id |-> e.process_id,
     source_ip_port |-> e.source_ip_port,
     time_stamp_accepted |-> e.time_stamp_accepted,
     frontend_name |-> e.frontend_name,
     backend_name |-> e.backend_name,
     server_name |-> e.server_name,
     timers |-> Serialize_HaproxyTimers(e.timers),
     response_code |-> e.response_code,
     bytes_read |-> e.bytes_read,
     termination_state |-> Serialize_HaproxyTerminationState(e.termination_state),
     conn_counts |-> Serialize_HaproxyConnectionCounts(e.conn_counts),
     queue |-> Serialize_HaproxyQueueStats(e.queue),
     request |-> e.request]

\* The decoded entry is serialized.
Serialize ==
    /\ op = "HaproxyLogEntry::parse"
    /\ output.res.ok
    /\ op' = "HaproxyLogEntry::serialize"
    /\ output' = [res |-> output.res,
                  is_error |-> output.is_error,
                  serialized |-> Serialize_HaproxyLogEntry(output.res.val)]
    /\ UNCHANGED <<input, orig>>
    /\ UNCHANGED <<main_vars, call_vars>>

NextSerialize == Decode \/ Serialize

SpecSerialize == Init /\ [][NextSerialize]_vars

\* The 13 top-level string fields of an entry.
StringFields == GroupNames \ {"queues_stats", "termination_state", "conn_counts", "queue"}

\* The serialized form s shows the entry e: its 13 strings and its four
\* nested objects with their typed fields, raw strings and descriptions.
ShowsEntry(s, e) ==
    /\ \A g \in StringFields : g \in DOMAIN s /\ s[g] = e[g]
    /\ {"timers", "termination_state", "conn_counts", "queue"} \subseteq DOMAIN s
    /\ s.timers.raw = e.timers.raw
    /\ \A f \in DOMAIN e.timers \ {"raw"} : s.timers[f] = [number |-> e.timers[f]]
    /\ s.conn_counts.raw = e.conn_counts.raw
    /\ \A f \in DOMAIN e.conn_counts \ {"raw"} :
          s.conn_counts[f] = [number |-> e.conn_counts[f]]
    /\ \A f \in DOMAIN e.queue : s.queue[f] = [number |-> e.queue[f]]
    /\ s.termination_state.raw = e.termination_state.raw
    /\ \A f \in DOMAIN e.termination_state \ {"raw"} :
          /\ s.termination_state[f].shorthand = e.termination_state[f].shorthand
          /\ s.termination_state[f].description = e.termination_state[f].description

\* C12 as stated: the serialized form of a decoded entry has the 13 string
\* fields, the four nested objects with their fields, and a boolean field
\* is_error equal to HaproxyLogEntry::is_error().
C12_SerializedAsClaimed ==
    op = "HaproxyLogEntry::serialize"
        => /\ ShowsEntry(output.serialized, output.res.val)
           /\ "is_error" \in DOMAIN output.serialized
           /\ output.serialized.is_error = HaproxyLogEntry_is_error(output.res.val)

(***************************************************************************)
(* The record of main.rs: struct HaproxyLogEntry with 17 String fields     *)
(* (src/src/main.rs:29-146), the one main decodes its lines into.          *)
(***************************************************************************)
main_HaproxyLogEntry_captured(captures) ==
    IF ~captures.ok
    THEN Err("Failed to parse line")
    ELSE Ok([month |-> captures.name["month"],
              day |-> captures.name["day"],
              time |-> captures.name["time"],
              host |-> captures.name["host"],
              process_id |-> captures.name["process_id"],
              source_ip_port |-> captures.name["source_ip_port"],
              time_stamp_accepted |-> captures.name["time_stamp_accepted"],
              frontend_name |-> captures.name["frontend_name"],
              backend_name |-> captures.name["backend_name"],
              server_name |-> captures.name["server_name"],
              queues_stats |-> captures.name["queues_stats"],
              response_code |-> captures.name["response_code"],
              bytes_read |-> captures.name["bytes_read"],
              termination_state |-> captures.name["termination_state"],
              conn_counts |-> captures.name["conn_counts"],
              queue |-> captures.name["queue"],
              request |-> captures.name["request"]])

main_HaproxyLogEntry_parse(s) == main_HaproxyLogEntry_captured(RE_captures(s))

main_HaproxyLogEntry_colorless(e) ==
    e.month \o " "
    \o e.day \o " "
    \o e.time \o " "
    \o e.host \o " "
    \o e.process_id \o " "
    \o e.source_ip_port \o " "
    \o e.time_stamp_accepted \o " "
    \o e.frontend_name \o " "
    \o e.backend_name \o " "
    \o e.server_name \o " "
    \o e.queues_stats \o " "
    \o e.response_code \o " "
    \o e.bytes_read \o " "
    \o e.termination_state \o " "
    \o e.conn_counts \o " "
    \o e.queue \o " "
    \o e.request

\* The colour of the response code in colorize().
main_CodeColor(code) ==
    IF ~code.ok
    THEN "white"
    ELSE IF code.val >= 200 /\ code.val < 300
    THEN "green"
    ELSE IF code.val >= 300 /\ code.val < 400
    THEN "yellow"
    ELSE IF code.val >= 400
    THEN "red"
    ELSE "white"

\* colorize(): the 17 coloured texts that format! joins with spaces.
main_HaproxyLogEntry_colorize(e) ==
    <<[text |-> e.month, color |-> "white"],
      [text |-> e.day, color |-> "white"],
      [text |-> e.time, color |-> "white"],
      [text |-> e.host, color |-> "white"],
      [text |-> e.process_id, color |-> "white"],
      [text |-> e.source_ip_port, color |-> "white"],
      [text |-> e.time_stamp_accepted, color |-> "white"],
      [text |-> e.frontend_name, color |-> "purple"],
      [text |-> e.backend_name, color |-> "yellow"],
      [text |-> e.server_name, color |-> "blue"],
      [text |-> e.queues_stats, color |-> "white"],
      [text |-> e.response_code, color |-> main_CodeColor(parse_u16(e.response_code))],
      [text |-> e.bytes_read, color |-> "white"],
      [text |-> e.termination_state,
       color |-> IF e.termination_state = "----" THEN "green" ELSE "red"],
      [text |-> e.conn_counts, color |-> "white"],
      [text |-> e.queue, color |-> "white"],
      [text |-> e.request, color |-> "white"]>>

main_IsErrorCode(code, termination_state) ==
    IF code.ok THEN code.val >= 400 \/ termination_state # "----" ELSE TRUE

main_HaproxyLogEntry_is_error(e) ==
    main_IsErrorCode(parse_u16(e.response_code), e.termination_state)

main_Decoded(r) ==
    IF r.ok
    THEN [res |-> r,
          is_error |-> main_HaproxyLogEntry_is_error(r.val),
          colorless |-> main_HaproxyLogEntry_colorless(r.val)]
    ELSE [res |-> r]

\* The parse of main.rs applied to the line, with is_error() and
\* colorless() of its entry.
DecodeLegacy ==
    /\ op = "none"
    /\ op' = "main::HaproxyLogEntry::parse"
    /\ output' = main_Decoded(main_HaproxyLogEntry_parse(input))
    /\ UNCHANGED <<input, orig>>
    /\ UNCHANGED <<main_vars, call_vars>>

NextLegacy == DecodeLegacy

SpecLegacy == Init /\ [][NextLegacy]_vars

\* legacy and structured are the outcomes of the two records on one line.
Agree(legacy, structured) ==
    /\ legacy.res.ok <=> structured.res.ok
    /\ legacy.res.ok
          => /\ \A g \in StringFields : legacy.res.val[g] = structured.res.val[g]
             /\ legacy.is_error = structured.is_error
             /\ legacy.colorless = structured.colorless

\* C16 as stated: the record of main.rs and the record of haproxy.rs accept
\* the same lines, with the same pass-through strings, the same is_error()
\* and the same colorless() on every accepted line.
C16_RecordsAgreeAsClaimed ==
    op = "main::HaproxyLogEntry::parse"
        => Agree(output, Decoded(HaproxyLogEntry_parse(input)))

(***************************************************************************)
(* main (src/src/main.rs:156-203): the command line is parsed, the matcher *)
(* compiled and the input opened; then every line of the input is read,    *)
(* filtered by the matcher, decoded into the record of main.rs and printed.*)
(* Failures of println! and eprintln! are not modelled.                    *)
(***************************************************************************)
\* The largest number of lines read from the input.
MaxLines == 3

None == [some |-> FALSE]

Some(v) == [some |-> TRUE, val |-> v]

\* The command lines tried; the matcher patterns are a literal and a
\* pattern Regex::new refuses.
ArgsSet ==
    [file : {None, Some("access.log")},
     dull : BOOLEAN,
     errors : BOOLEAN,
     matcher : {None, Some("503"), Some("(")},
     verbose : BOOLEAN]

\* Regex::new(m), for the patterns of ArgsSet: a pattern of letters, digits
\* and spaces is a literal, an unclosed group is refused.
RegexNew(m) ==
    IF \A i \in 1..Len(m) : CharAt(m, i) \in AsciiAlpha \cup AsciiDigit \cup {" "}
    THEN Ok([literal |-> m])
    ELSE Err("regex parse error")

\* matcher.is_match(line): the literal occurs somewhere in the line.
is_match(re, line) ==
    \E i \in 1..(Len(line) - Len(re.literal) + 1) :
        SubSeq(line, i, i + Len(re.literal) - 1) = re.literal

\* The lines the input is made of: one decoded without error, one decoded
\* with the error code 503, and one cut after its response code 503.
DriverLines ==
    {MakeLine(Sample),
     MakeLine([Sample EXCEPT !.response_code = "503"]),
     SubSeq(MakeLine([Sample EXCEPT !.response_code = "503"]), 1, 115)}

InitMain ==
    /\ args \in ArgsSet
    /\ reader = [read |-> <<>>]
    /\ stdout = <<>>
    /\ stderr = <<>>
    /\ pc = "start"
    /\ input = ""
    /\ op = "none"
    /\ output = NoOutput
    /\ orig = NoOutput
    /\ calls = <<>>
    /\ re_cell = "unused"

\* main returns r.
Return(r) ==
    /\ pc' = "done"
    /\ op' = "main"
    /\ output' = [res |-> r]

\* What main has after its arguments: the matcher compiled and the input
\* opened, available telling whether the file opens (or, with no file,
\* whether standard input is redirected).
StartOutcome(a, available) ==
    IF a.matcher.some /\ ~RegexNew(a.matcher.val).ok
    THEN RegexNew(a.matcher.val)
    ELSE IF a.file.some
    THEN IF available THEN Ok("reader") ELSE Err("No such file or directory")
    ELSE IF available THEN Ok("reader") ELSE Err("No input provided")

Started(r) ==
    IF r.ok
    THEN pc' = "lines" /\ UNCHANGED <<op, output>>
    ELSE Return(r)

Start ==
    /\ pc = "start"
    /\ \E available \in BOOLEAN : Started(StartOutcome(args, available))
    /\ UNCHANGED <<input, orig, args, reader, stdout, stderr, call_vars>>

\* reader.lines() gives the next line.
NextLine ==
    /\ pc = "lines"
    /\ Len(reader.read) < MaxLines
    /\ \E l \in DriverLines :
          /\ reader' = [read |-> Append(reader.read, Ok(l))]
          /\ input' = l
    /\ pc' = "matcher"
    /\ op' = "none"
    /\ output' = NoOutput
    /\ UNCHANGED <<orig, args, stdout, stderr, call_vars>>

\* reader.lines() gives an error (the input cannot be read, or is not
\* UTF-8): line? returns it from main.
ReadFails ==
    /\ pc = "lines"
    /\ Len(reader.read) < MaxLines
    /\ reader' = [read |-> Append(reader.read, Err("stream did not contain valid UTF-8"))]
    /\ Return(Err("stream did not contain valid UTF-8"))
    /\ UNCHANGED <<input, orig, args, stdout, stderr, call_vars>>

\* reader.lines() is exhausted: main returns Ok(()).
EndOfInput ==
    /\ pc = "lines"
    /\ Return(Ok("()"))
    /\ UNCHANGED <<input, orig, args, reader, stdout, stderr, call_vars>>

\* The line is not matched by the matcher given: continue.
Rejects(a, line) == a.matcher.some /\ ~is_match(RegexNew(a.matcher.val).val, line)

Filter ==
    /\ pc = "matcher"
    /\ pc' = IF Rejects(args, input) THEN "lines" ELSE "parse"
    /\ UNCHANGED <<input, op, output, orig, args, reader, stdout, stderr, call_vars>>

\* HaproxyLogEntry::parse(&line)
Parse ==
    /\ pc = "parse"
    /\ pc' = "match"
    /\ op' = "main::HaproxyLogEntry::parse"
    /\ output' = main_Decoded(main_HaproxyLogEntry_parse(input))
    /\ UNCHANGED <<input, orig, args, reader, stdout, stderr, call_vars>>

\* The errors flag set and the entry no error: the entry printed all the
\* same (the test of is_error() inverted).
Skips_inverted(a, is_error) == a.errors /\ is_error

\* if args.errors && !entry.is_error() { continue; }
Skips(a, is_error) == a.errors /\ ~is_error

\* The line written put before the lines written earlier.
Println_front(out, of, text) == <<[of |-> of, text |-> text]>> \o out

\* println!/eprintln!: text is written after what out holds; of, the
\* number of the input line it is written for, is kept for the properties.
Println(out, of, text) == Append(out, [of |-> of, text |-> text])

\* Ok(entry), not to be printed.
SkipNonError ==
    /\ pc = "match"
    /\ output.res.ok
    /\ Skips(args, output.is_error)
    /\ pc' = "lines"
    /\ UNCHANGED <<input, op, output, orig, args, reader, stdout, stderr, call_vars>>

\* Ok(entry), printed: colorless() with the dull flag, else colorize().
PrintEntry ==
    /\ pc = "match"
    /\ output.res.ok
    /\ ~Skips(args, output.is_error)
    /\ stdout' = Println(stdout, Len(reader.read),
                         IF args.dull
                         THEN output.colorless
                         ELSE main_HaproxyLogEntry_colorize(output.res.val))
    /\ pc' = "lines"
    /\ UNCHANGED <<input, op, output, orig, args, reader, stderr, call_vars>>

\* The decode failure returned from main (parse(&line)? in place of the
\* match).
ReportFailure_returns ==
    /\ pc = "match"
    /\ ~output.res.ok
    /\ Return(output.res)
    /\ UNCHANGED <<input, orig, args, reader, stdout, stderr, call_vars>>

\* Err(_): the line reported on standard error with the verbose flag.
ReportFailure ==
    /\ pc = "match"
    /\ ~output.res.ok
    /\ stderr' = IF args.verbose
                 THEN Println(stderr, Len(reader.read), "Failed to parse line: " \o input)
                 ELSE stderr
    /\ pc' = "lines"
    /\ UNCHANGED <<input, op, output, orig, args, reader, stdout, call_vars>>

NextMain ==
    \/ Start
    \/ NextLine
    \/ ReadFails
    \/ EndOfInput
    \/ Filter
    \/ Parse
    \/ SkipNonError
    \/ PrintEntry
    \/ ReportFailure

SpecMain == InitMain /\ [][NextMain]_vars

(***************************************************************************)
(* Properties of main.                                                     *)
(***************************************************************************)
\* What the record of main.rs makes of every line of the input.
Outcome == [l \in DriverLines |-> main_Decoded(main_HaproxyLogEntry_parse(l))]

\* The lines read whose turn of the loop is over.
Handled ==
    {i \in 1..Len(reader.read) : i < Len(reader.read) \/ pc \in {"lines", "done"}}

\* The places of out written for the input line i.
WrittenFor(out, i) == {k \in 1..Len(out) : out[k].of = i}

\* The input line i passed the matcher and failed to decode.
FailsToDecode(i) ==
    /\ reader.read[i].ok
    /\ ~Rejects(args, reader.read[i].val)
    /\ ~Outcome[reader.read[i].val].res.ok

\* The errors with which main returns before it reads a line.
StartErrors == {"regex parse error", "No such file or directory", "No input provided"}

\* C13: a line that fails to decode gives no line on standard output and,
\* with the verbose flag only, one diagnostic line on standard error; it
\* does not end main: main returns an error only before the first line or
\* for a line that could not be read, and returns Ok after the last line
\* otherwise, all lines before it handled.
C13_FailureSkipped ==
    /\ \A i \in Handled :
          FailsToDecode(i)
              => /\ WrittenFor(stdout, i) = {}
                 /\ Cardinality(WrittenFor(stderr, i)) = IF args.verbose THEN 1 ELSE 0
                 /\ \A k \in WrittenFor(stderr, i) :
                       stderr[k].text = "Failed to parse line: " \o reader.read[i].val
    /\ pc = "done"
          => /\ Handled = 1..Len(reader.read)
             /\ output.res.ok => \A i \in Handled : reader.read[i].ok
             /\ ~output.res.ok
                   => IF reader.read = <<>>
                      THEN output.res.err \in StartErrors
                      ELSE reader.read[Len(reader.read)] = output.res

\* C13 witness: main has returned Ok, a line that failed to decode was
\* reported on standard error, and a later line was printed.
C13_Witness ==
    /\ pc = "done"
    /\ output.res.ok
    /\ \E i, j \in Handled :
          /\ i < j
          /\ FailsToDecode(i)
          /\ WrittenFor(stderr, i) # {}
          /\ WrittenFor(stdout, j) # {}

\* The input line i is to be printed.
ToPrint(i) ==
    /\ reader.read[i].ok
    /\ ~Rejects(args, reader.read[i].val)
    /\ Outcome[reader.read[i].val].res.ok
    /\ args.errors => Outcome[reader.read[i].val].is_error

\* C14: a line is printed, once, iff it passes the matcher, decodes and,
\* with the errors flag, its is_error() is true; a line the matcher rejects
\* is not decoded, not printed and not reported.
C14_PrintedIff ==
    /\ \A i \in Handled :
          /\ Cardinality(WrittenFor(stdout, i)) = IF ToPrint(i) THEN 1 ELSE 0
          /\ (reader.read[i].ok /\ Rejects(args, reader.read[i].val))
                => WrittenFor(stderr, i) = {}
    /\ pc \in {"parse", "match"} => ~Rejects(args, input)
    /\ pc = "match" => output = Outcome[input]

\* C14 witness: with the errors flag and no matcher, main has returned
\* after a decoded line that is no error, not printed, and a decoded line
\* that is an error, printed.
C14_Witness ==
    /\ pc = "done"
    /\ args.errors
    /\ ~args.matcher.some
    /\ \E i, j \in Handled :
          /\ reader.read[i].ok /\ reader.read[j].ok
          /\ Outcome[reader.read[i].val].res.ok
          /\ ~Outcome[reader.read[i].val].is_error
          /\ WrittenFor(stdout, i) = {}
          /\ Outcome[reader.read[j].val].res.ok
          /\ WrittenFor(stdout, j) # {}

\* The rendering of the input line i that main prints.
Rendering(i) ==
    IF args.dull
    THEN Outcome[reader.read[i].val].colorless
    ELSE main_HaproxyLogEntry_colorize(Outcome[reader.read[i].val].res.val)

\* C15: the lines on standard output are renderings of input lines in the
\* order of the input: the numbers of the input lines they are written for
\* increase strictly, so a line is written at most once.
C15_OrderPreserved ==
    /\ \A k \in 1..Len(stdout) :
          /\ stdout[k].of \in 1..Len(reader.read)
          /\ reader.read[stdout[k].of].ok
          /\ stdout[k].text = Rendering(stdout[k].of)
    /\ \A k \in 1..(Len(stdout) - 1) : stdout[k].of < stdout[k + 1].of

\* C15 witness: two input lines printed, with a line between them that
\* was not.
C15_Witness ==
    /\ Len(stdout) = 2
    /\ stdout[1].of = 1
    /\ stdout[2].of = 3
=============================================================================
